---- MODULE Spec2Model ----
(***************************************************************************)
(* FlappySoupGame (React component): the simulation core, the session      *)
(* state machine and the animation-frame loop.                             *)
(*                                                                         *)
(* Units.  Every length, position and velocity is an integer number of     *)
(* TENTHS of a world unit (GAME_SPEED 3.9 -> 39, GRAVITY 0.5 -> 5, ...).   *)
(* All quantities the code compares are then exact integers: player.y and  *)
(* velocity are multiples of 0.5, pipe.x is 800 - 3.9 n, and the nearest   *)
(* any pipe.x comes to a comparison boundary is 0.7 units, far above the   *)
(* rounding error of the doubles the code uses.                            *)
(*                                                                         *)
(* React.  State set from a requestAnimationFrame callback (setScore,      *)
(* setGameState, setHighScore in gameLoop/endGame) is queued and applied   *)
(* by a later render; the render, its commit and its effects are one step  *)
(* (Commit).  Whether the next animation frame fires before or after that  *)
(* render is up to the browser: up to MaxLag frames may run first.  State  *)
(* set from a discrete input event (click, keydown) is rendered and its    *)
(* effects run before anything else happens, so those handlers are atomic. *)
(***************************************************************************)
EXTENDS Integers, Sequences, FiniteSets, TLC

\* ---- program constants (tenths of a unit; frames for the intervals) ----
GAME_WIDTH == 8000
GAME_HEIGHT == 6000
PLAYER_SIZE == 400
GRAVITY == 5
JUMP_FORCE == -100
MAX_FALL_SPEED == 120
PIPE_WIDTH == 800
PIPE_GAP == 2800
SPAWN_INTERVAL == 140
GAME_SPEED == 39
SOUP_BASE_Y == GAME_HEIGHT - 600
PLAYER_X == 1500
BUBBLE_INTERVAL == 12
BUBBLE_LIMIT == 40
BUBBLE_MARGIN == 20

\* ---- bounds of the model ----
\* a session is followed for at most MaxFrame ticks
MaxFrame == 425
\* jump input arrives only between ticks whose frameCount is a multiple of JumpEvery
JumpEvery == 20
\* animation frames that may fire while state set by a frame awaits its render
MaxLag == 3
\* sessions started
MaxSessions == 2

\* Math.random() * (GAME_HEIGHT - PIPE_GAP - 200) + 100 lies in [100, 220):
\* the least value, the middle, and one just under the supremum.
PipeHeights == {1000, 1600, 2195}

\* A new bubble's random draws: r = 2 + random*5 in [2, 7), vy = -0.6 - random*0.9
\* in (-1.5, -0.6]; values at or next to the ends of each range.
BubbleDraws == { [r |-> 20, vy |-> -6], [r |-> 69, vy |-> -6],
                 [r |-> 20, vy |-> -14], [r |-> 69, vy |-> -14] }

\* soupSurfaceYAt(170, frame) for frame = 1..500, rounded down to a tenth:
\* 540 + 10 sin(170*0.015 + frame*0.06) + 6 sin(170*0.035 - frame*0.04).
\* An integer n satisfies n > s exactly when n > floor(s).
SoupTable == <<
    5428, 5421, 5413, 5406, 5398, 5390, 5382, 5374, 5366, 5359, 5351, 5343, 5336, 5328, 5321, 5314, 5307, 5300, 5294, 5288,
    5282, 5277, 5272, 5267, 5262, 5258, 5255, 5251, 5248, 5246, 5244, 5242, 5241, 5241, 5240, 5241, 5241, 5243, 5244, 5246,
    5249, 5252, 5255, 5259, 5263, 5267, 5272, 5278, 5283, 5289, 5295, 5302, 5309, 5316, 5323, 5331, 5338, 5346, 5354, 5362,
    5371, 5379, 5387, 5395, 5404, 5412, 5420, 5428, 5436, 5444, 5452, 5459, 5466, 5474, 5480, 5487, 5493, 5499, 5505, 5510,
    5515, 5519, 5524, 5527, 5531, 5534, 5536, 5539, 5540, 5542, 5543, 5543, 5543, 5543, 5542, 5541, 5539, 5537, 5535, 5532,
    5529, 5525, 5522, 5517, 5513, 5508, 5503, 5498, 5492, 5487, 5481, 5475, 5468, 5462, 5456, 5449, 5442, 5436, 5429, 5422,
    5416, 5409, 5403, 5396, 5390, 5384, 5378, 5372, 5366, 5361, 5355, 5350, 5345, 5341, 5337, 5333, 5329, 5326, 5323, 5320,
    5318, 5316, 5314, 5313, 5312, 5311, 5311, 5311, 5311, 5311, 5312, 5314, 5315, 5317, 5319, 5321, 5324, 5327, 5330, 5333,
    5336, 5340, 5344, 5348, 5352, 5356, 5360, 5364, 5368, 5373, 5377, 5381, 5386, 5390, 5394, 5398, 5402, 5406, 5410, 5413,
    5417, 5420, 5423, 5426, 5428, 5431, 5433, 5435, 5437, 5438, 5439, 5440, 5441, 5441, 5441, 5441, 5441, 5440, 5439, 5438,
    5436, 5435, 5433, 5431, 5428, 5426, 5423, 5420, 5417, 5414, 5411, 5407, 5404, 5400, 5397, 5393, 5389, 5386, 5382, 5378,
    5374, 5371, 5367, 5364, 5360, 5357, 5354, 5351, 5349, 5346, 5344, 5342, 5340, 5338, 5337, 5336, 5335, 5334, 5334, 5334,
    5334, 5335, 5336, 5337, 5339, 5340, 5342, 5345, 5348, 5350, 5354, 5357, 5361, 5365, 5369, 5373, 5378, 5383, 5388, 5393,
    5398, 5404, 5409, 5415, 5420, 5426, 5432, 5438, 5443, 5449, 5455, 5460, 5466, 5471, 5476, 5481, 5486, 5490, 5495, 5499,
    5503, 5507, 5510, 5513, 5516, 5518, 5520, 5522, 5523, 5524, 5525, 5525, 5525, 5524, 5523, 5522, 5520, 5518, 5515, 5513,
    5509, 5506, 5502, 5497, 5492, 5487, 5482, 5476, 5470, 5464, 5458, 5451, 5444, 5437, 5429, 5422, 5414, 5407, 5399, 5391,
    5383, 5375, 5368, 5360, 5352, 5344, 5337, 5329, 5322, 5315, 5308, 5301, 5295, 5289, 5283, 5278, 5272, 5268, 5263, 5259,
    5255, 5252, 5249, 5246, 5244, 5243, 5242, 5241, 5240, 5241, 5241, 5242, 5244, 5246, 5248, 5251, 5254, 5258, 5262, 5267,
    5272, 5277, 5282, 5288, 5294, 5301, 5308, 5315, 5322, 5330, 5337, 5345, 5353, 5361, 5369, 5378, 5386, 5394, 5402, 5411,
    5419, 5427, 5435, 5443, 5450, 5458, 5465, 5472, 5479, 5486, 5492, 5498, 5504, 5509, 5514, 5519, 5523, 5527, 5530, 5533,
    5536, 5538, 5540, 5542, 5543, 5543, 5543, 5543, 5542, 5541, 5539, 5537, 5535, 5532, 5529, 5526, 5522, 5518, 5514, 5509,
    5504, 5499, 5493, 5488, 5482, 5476, 5469, 5463, 5457, 5450, 5443, 5437, 5430, 5423, 5417, 5410, 5404, 5397, 5391, 5385,
    5378, 5373, 5367, 5361, 5356, 5351, 5346, 5342, 5337, 5333, 5330, 5326, 5323, 5321, 5318, 5316, 5314, 5313, 5312, 5311,
    5311, 5311, 5311, 5311, 5312, 5313, 5315, 5317, 5319, 5321, 5323, 5326, 5329, 5332, 5336, 5339, 5343, 5347, 5351, 5355,
    5359, 5363, 5368, 5372, 5376, 5381, 5385, 5389, 5393, 5397, 5401, 5405, 5409, 5413, 5416, 5419, 5422, 5425, 5428, 5430
>>

\* soupSurfaceYAt at the player's centre x (player.x + player.width / 2 = 170)
SoupSurfaceHere(frame) == SoupTable[frame]

\* soupSurfaceYAt at a bubble's x, which is a random real that wobbles: whatever x
\* is, the two sines (amplitudes 10 and 6) keep the value within 16 of the base.
SoupSurfaceRange == { SOUP_BASE_Y - 160, SOUP_BASE_Y, SOUP_BASE_Y + 160 }

VARIABLES
  gameState,    \* React state: "menu" | "playing" | "gameOver" (as last rendered)
  score,        \* React state (as last rendered)
  highScore,    \* React state (as last rendered)
  pending,      \* state updates queued by frame callbacks, not yet rendered
  lag,          \* frames run since the oldest queued update
  player,       \* gameDataRef.current.player
  pipes,        \* gameDataRef.current.pipes
  bubbles,      \* gameDataRef.current.bubbles
  frameCount,   \* gameDataRef.current.frameCount
  rafQueue,     \* animation-frame callbacks requested and not yet run or cancelled
  gameLoopRef,  \* gameLoopRef.current: the id of the last request (0: none yet)
  sessions,     \* history: number of sessions started
  lastEvent,    \* history: the handler that ran last
  jumpLog,      \* history: the jumps this session took (any, at this frame, one skipped)
  lastTick      \* history: what the bubble stage of the last gameLoop did

vars == << gameState, score, highScore, pending, lag, player, pipes, bubbles,
           frameCount, rafQueue, gameLoopRef, sessions, lastEvent, jumpLog,
           lastTick >>

Max(a, b) == IF a >= b THEN a ELSE b

\* ---- the entity store ----
InitialGameData ==
  [ player |-> [x |-> PLAYER_X, y |-> GAME_HEIGHT \div 2, width |-> PLAYER_SIZE,
                height |-> PLAYER_SIZE, velocity |-> 0],
    pipes |-> << >>, bubbles |-> << >>, frameCount |-> 0 ]

\* ---- React state as the next render will see it ----
RECURSIVE ApplyUpdates(_, _)
ApplyUpdates(st, q) ==
  IF q = << >> THEN st
  ELSE LET u == Head(q)
           st1 == CASE u.hook = "score" -> [st EXCEPT !.score = @ + 1]
                    [] u.hook = "gameState" -> [st EXCEPT !.gameState = u.to]
                    [] u.hook = "highScore" -> [st EXCEPT !.highScore = Max(@, u.n)]
       IN ApplyUpdates(st1, Tail(q))

Rendered == [gameState |-> gameState, score |-> score, highScore |-> highScore]
NextRender == ApplyUpdates(Rendered, pending)

\* the queue without the updates of one hook: an update made in a discrete event
\* is rendered at once, and when the queued ones are rendered later it is applied
\* after them, so for a hook that is only ever set to a value it overrides them
DropHook(q, hook) == SelectSeq(q, LAMBDA u : u.hook # hook)

\* ---- requestAnimationFrame / cancelAnimationFrame ----
\* ids only tell requests apart: a request takes the least id no pending one has
RafIds == 1..4
FreshId(q) == CHOOSE i \in RafIds : \A cb \in q : cb.id # i

\* requestAnimationFrame(gameLoop), gameLoop being the closure of a render whose
\* endGame captured closureScore; gameLoopRef.current = the id
RequestFrame(q, closureScore) ==
  LET id == FreshId(q)
  IN [queue |-> q \cup {[id |-> id, score |-> closureScore]}, ref |-> id]

\* the loop effect's cleanup: if (gameLoopRef.current) cancelAnimationFrame(...)
CancelNothing(q, ref) == q
CancelFrame(q, ref) == {cb \in q : cb.id # ref}

\* The game loop effect, deps [gameState, endGame, skin]; endGame is re-created
\* exactly when score changes.  When a dep changed: the previous run's cleanup (it
\* returned one only if it ran with gameState "playing"), then the new run.
LoopEffectUnguarded(oldState, oldScore, newState, newScore, q, ref) ==
  IF oldState = newState /\ oldScore = newScore
  THEN [queue |-> q, ref |-> ref]
  ELSE RequestFrame(IF oldState = "playing" THEN CancelFrame(q, ref) ELSE q, newScore)
LoopEffect(oldState, oldScore, newState, newScore, q, ref) ==
  IF oldState = newState /\ oldScore = newScore
  THEN [queue |-> q, ref |-> ref]
  ELSE LET cleaned == IF oldState = "playing" THEN CancelFrame(q, ref) ELSE q
       IN IF newState # "playing"
          THEN [queue |-> cleaned, ref |-> ref]
          ELSE RequestFrame(cleaned, newScore)

\* ---- gameLoop, stage by stage ----
\* update player
IntegrateNoGravity(p) ==
  [p EXCEPT !.y = p.y + p.velocity]
IntegrateNoClamp(p) ==
  LET v1 == p.velocity + GRAVITY
  IN [p EXCEPT !.velocity = v1, !.y = p.y + v1]
Integrate(p) ==
  LET v1 == p.velocity + GRAVITY
      v2 == IF v1 > MAX_FALL_SPEED THEN MAX_FALL_SPEED ELSE v1
  IN [p EXCEPT !.velocity = v2, !.y = p.y + v2]

\* generate forks
GenerateForksLate(ps, frame, pipeHeight) ==
  IF frame % SPAWN_INTERVAL = 1
  THEN ps \o << [x |-> GAME_WIDTH, y |-> 0, width |-> PIPE_WIDTH,
                 height |-> pipeHeight, passed |-> FALSE],
                [x |-> GAME_WIDTH, y |-> pipeHeight + PIPE_GAP, width |-> PIPE_WIDTH,
                 height |-> GAME_HEIGHT - pipeHeight - PIPE_GAP, passed |-> FALSE] >>
  ELSE ps
GenerateForksShortGap(ps, frame, pipeHeight) ==
  IF frame % SPAWN_INTERVAL = 0
  THEN ps \o << [x |-> GAME_WIDTH, y |-> 0, width |-> PIPE_WIDTH,
                 height |-> pipeHeight, passed |-> FALSE],
                [x |-> GAME_WIDTH, y |-> pipeHeight + PIPE_GAP, width |-> PIPE_WIDTH,
                 height |-> GAME_HEIGHT - pipeHeight, passed |-> FALSE] >>
  ELSE ps
GenerateForks(ps, frame, pipeHeight) ==
  IF frame % SPAWN_INTERVAL = 0
  THEN ps \o << [x |-> GAME_WIDTH, y |-> 0, width |-> PIPE_WIDTH,
                 height |-> pipeHeight, passed |-> FALSE],
                [x |-> GAME_WIDTH, y |-> pipeHeight + PIPE_GAP, width |-> PIPE_WIDTH,
                 height |-> GAME_HEIGHT - pipeHeight - PIPE_GAP, passed |-> FALSE] >>
  ELSE ps

\* update forks: the filter callback, pipe by pipe
Translate(pipe) == [pipe EXCEPT !.x = @ - GAME_SPEED]
ScoresOnReach(moved, p) == ~moved.passed /\ moved.y = 0 /\ moved.x < p.x + p.width
ScoresAnyFork(moved, p) == ~moved.passed /\ moved.x + moved.width < p.x
Scores(moved, p) == ~moved.passed /\ moved.y = 0 /\ moved.x + moved.width < p.x
MoveFork(pipe, p) ==
  LET moved == Translate(pipe)
  IN IF Scores(moved, p) THEN [moved EXCEPT !.passed = TRUE] ELSE moved
RetainedLong(pipe) == pipe.x + pipe.width > -GAME_WIDTH
RetainedLeftEdge(pipe) == pipe.x > 0
RetainedAhead(pipe) == pipe.x > PLAYER_X
Retained(pipe) == pipe.x + pipe.width > 0
ForksMoved(ps, p) == [i \in 1..Len(ps) |-> MoveFork(ps[i], p)]
UpdateForks(ps, p) == SelectSeq(ForksMoved(ps, p), Retained)
\* the number of setScore(prev => prev + 1) calls the filter makes
ScoreCalls(ps, p) == Cardinality({i \in 1..Len(ps) : Scores(Translate(ps[i]), p)})

\* update soup bubbles.  A bubble's x and wobble only choose where the surface is
\* sampled; the model keeps y, r and vy and draws the sampled surface height.
SpawnsBubbleEveryFrame(bs, frame) == Len(bs) < BUBBLE_LIMIT
SpawnsBubble(bs, frame) == frame % BUBBLE_INTERVAL = 0 /\ Len(bs) < BUBBLE_LIMIT
SpawnBubbleAboveSoup(bs, frame, d) ==
  IF SpawnsBubble(bs, frame)
  THEN Append(bs, [y |-> SOUP_BASE_Y - 600, r |-> d.r, vy |-> d.vy])
  ELSE bs
SpawnBubble(bs, frame, d) ==
  IF SpawnsBubble(bs, frame)
  THEN Append(bs, [y |-> GAME_HEIGHT - 60, r |-> d.r, vy |-> d.vy])
  ELSE bs
BubbleStaysAtSurface(b, surface) == b.y + b.r >= surface - BUBBLE_MARGIN
BubbleStays(b, surface) == b.y + b.r < surface - BUBBLE_MARGIN
MoveBubbles(bs) == [i \in 1..Len(bs) |-> [bs[i] EXCEPT !.y = @ + bs[i].vy]]
UpdateBubbles(bs, surface) ==
  SelectSeq(MoveBubbles(bs), LAMBDA b : BubbleStays(b, surface))

\* collision detection
CeilingHitBelowTop(p) == p.y + p.height < 0
CeilingHit(p) == p.y < 0
SoupHitTopEdge(p, frame) == p.y > SoupSurfaceHere(frame)
SoupHit(p, frame) == p.y + p.height > SoupSurfaceHere(frame)
Overlaps(p, pipe) ==
  /\ p.x < pipe.x + pipe.width
  /\ p.x + p.width > pipe.x
  /\ p.y < pipe.y + pipe.height
  /\ p.y + p.height > pipe.y
ForkHit(p, ps) == \E i \in 1..Len(ps) : Overlaps(p, ps[i])
Collision(p, ps, frame) == CeilingHit(p) \/ SoupHit(p, frame) \/ ForkHit(p, ps)

\* endGame of the render whose score was closureScore
EndGame(closureScore) ==
  << [hook |-> "gameState", to |-> "gameOver", n |-> 0],
     [hook |-> "highScore", to |-> "", n |-> closureScore] >>

\* setScore(prev => prev + 1)
ScoreUpdate == [hook |-> "score", to |-> "", n |-> 1]

\* the end of gameLoop: endGame() and return on a collision, otherwise render and
\* request the next frame with the same closure
AfterFrame(hit, q, ref, closureScore) ==
  IF hit THEN [queue |-> q, ref |-> ref] ELSE RequestFrame(q, closureScore)

\* what the tick draws at random
HeightDraws(frame) == IF frame % SPAWN_INTERVAL = 0 THEN PipeHeights ELSE {0}
BubbleDrawsAt(bs, frame) ==
  IF SpawnsBubble(bs, frame) THEN BubbleDraws ELSE {[r |-> 0, vy |-> 0]}
SurfaceDraws(bs, frame) ==
  IF bs # << >> \/ SpawnsBubble(bs, frame) THEN SoupSurfaceRange ELSE {SOUP_BASE_Y}

\* The jump history of a session: whether any jump was taken, whether one was
\* taken at the current frameCount, and whether a frame at which the input
\* offers a jump (a positive multiple of JumpEvery) went by without one.
NoJumps == [any |-> FALSE, here |-> FALSE, skipped |-> FALSE]
AfterTickLog(log, frame) ==
  [any |-> log.any, here |-> FALSE,
   skipped |-> log.skipped \/ (frame > 0 /\ frame % JumpEvery = 0 /\ ~log.here)]

\* The record of the session's last gameLoop: whether it made a bubble, the
\* bubbles after their move and the surface height they were compared with, the
\* forks after their move and the forks its collision loop ran over.
NoTick == [bubbleMade |-> FALSE, bubblesMoved |-> << >>, surface |-> SOUP_BASE_Y,
           forksMoved |-> << >>, forksChecked |-> << >>]

Init ==
  /\ gameState = "menu"
  /\ score = 0
  /\ highScore = 0
  /\ pending = << >>
  /\ lag = 0
  /\ player = InitialGameData.player
  /\ pipes = InitialGameData.pipes
  /\ bubbles = InitialGameData.bubbles
  /\ frameCount = InitialGameData.frameCount
  /\ rafQueue = {}
  /\ gameLoopRef = 0
  /\ sessions = 0
  /\ lastEvent = "mount"
  /\ jumpLog = NoJumps
  /\ lastTick = NoTick

\* The browser runs a requested frame callback: one whole gameLoop.
Tick ==
  /\ frameCount < MaxFrame
  /\ pending = << >> \/ lag < MaxLag
  /\ \E cb \in rafQueue :
     \E h \in HeightDraws(frameCount + 1) :
     \E d \in BubbleDrawsAt(bubbles, frameCount + 1) :
     \E surface \in SurfaceDraws(bubbles, frameCount + 1) :
       LET frame == frameCount + 1
           p1 == Integrate(player)
           gen == GenerateForks(pipes, frame, h)
           calls == ScoreCalls(gen, p1)
           ps1 == UpdateForks(gen, p1)
           bs1 == UpdateBubbles(SpawnBubble(bubbles, frame, d), surface)
           hit == Collision(p1, ps1, frame)
           after == AfterFrame(hit, rafQueue \ {cb}, gameLoopRef, cb.score)
       IN /\ frameCount' = frame
          /\ player' = p1
          /\ pipes' = ps1
          /\ bubbles' = bs1
          /\ pending' = pending \o [i \in 1..calls |-> ScoreUpdate]
                          \o (IF hit THEN EndGame(cb.score) ELSE << >>)
          /\ rafQueue' = after.queue
          /\ gameLoopRef' = after.ref
          /\ lag' = IF pending = << >> THEN 0 ELSE lag + 1
          /\ lastEvent' = "tick"
          /\ lastTick' = [bubbleMade |-> SpawnsBubble(bubbles, frame),
                          bubblesMoved |-> MoveBubbles(SpawnBubble(bubbles, frame, d)),
                          surface |-> surface,
                          forksMoved |-> ForksMoved(gen, p1),
                          forksChecked |-> ps1]
          /\ jumpLog' = AfterTickLog(jumpLog, frameCount)
          /\ UNCHANGED << gameState, score, highScore, sessions >>

\* React renders the queued updates, commits, and runs the effects.
Commit ==
  /\ pending # << >>
  /\ LET nr == NextRender
         eff == LoopEffect(gameState, score, nr.gameState, nr.score, rafQueue, gameLoopRef)
     IN /\ gameState' = nr.gameState
        /\ score' = nr.score
        /\ highScore' = nr.highScore
        /\ rafQueue' = eff.queue
        /\ gameLoopRef' = eff.ref
  /\ pending' = << >>
  /\ lag' = 0
  /\ lastEvent' = "render"
  /\ UNCHANGED << player, pipes, bubbles, frameCount, sessions, jumpLog, lastTick >>

\* startGame: resetGame(), setGameState('playing'); rendered at once
CallStartGameNoReset ==
  /\ sessions < MaxSessions
  /\ sessions' = sessions + 1
  /\ gameState' = "playing"
  /\ pending' = DropHook(pending, "gameState")
  /\ LET eff == LoopEffect(gameState, score, "playing", score, rafQueue, gameLoopRef)
     IN rafQueue' = eff.queue /\ gameLoopRef' = eff.ref
  /\ lastEvent' = "start"
  /\ jumpLog' = NoJumps
  /\ lastTick' = NoTick
  /\ UNCHANGED << score, highScore, lag, player, pipes, bubbles, frameCount >>
CallStartGame ==
  /\ sessions < MaxSessions
  /\ sessions' = sessions + 1
  /\ player' = InitialGameData.player
  /\ pipes' = InitialGameData.pipes
  /\ bubbles' = InitialGameData.bubbles
  /\ frameCount' = InitialGameData.frameCount
  /\ score' = 0
  /\ gameState' = "playing"
  /\ pending' = DropHook(DropHook(pending, "score"), "gameState")
  /\ LET eff == LoopEffect(gameState, score, "playing", 0, rafQueue, gameLoopRef)
     IN rafQueue' = eff.queue /\ gameLoopRef' = eff.ref
  /\ lastEvent' = "start"
  /\ jumpLog' = NoJumps
  /\ lastTick' = NoTick
  /\ UNCHANGED << highScore, lag >>

\* jump, as created by the render of gameState gs
JumpFnUnguarded(p, gs) == [p EXCEPT !.velocity = JUMP_FORCE]
JumpFnAdditive(p, gs) ==
  IF gs = "playing" THEN [p EXCEPT !.velocity = @ + JUMP_FORCE] ELSE p
JumpFn(p, gs) == IF gs = "playing" THEN [p EXCEPT !.velocity = JUMP_FORCE] ELSE p

CallJump ==
  /\ gameState = "playing" => frameCount % JumpEvery = 0 /\ frameCount < MaxFrame
  /\ player' = JumpFn(player, gameState)
  /\ lastEvent' = "jump"
  /\ jumpLog' = IF gameState = "playing"
                THEN [jumpLog EXCEPT !.any = TRUE, !.here = TRUE]
                ELSE jumpLog
  /\ UNCHANGED << gameState, score, highScore, pending, lag, pipes, bubbles,
                  frameCount, rafQueue, gameLoopRef, sessions, lastTick >>

\* toMenu: setGameState('menu'); rendered at once
CallToMenu ==
  /\ gameState' = "menu"
  /\ pending' = DropHook(pending, "gameState")
  /\ LET eff == LoopEffect(gameState, score, "menu", score, rafQueue, gameLoopRef)
     IN rafQueue' = eff.queue /\ gameLoopRef' = eff.ref
  /\ lastEvent' = "toMenu"
  /\ UNCHANGED << score, highScore, lag, player, pipes, bubbles, frameCount, sessions,
                  jumpLog, lastTick >>

\* ---- the inputs the page offers ----
\* Space, a click on the canvas, the Start Game and Try Again buttons
Start == gameState \in {"menu", "gameOver"} /\ CallStartGame
\* Space or a click on the canvas while playing
Jump == gameState = "playing" /\ CallJump
\* the Change Peanut button, shown on the game-over overlay only
ToMenu == gameState = "gameOver" /\ CallToMenu

Next == Tick \/ Commit \/ Start \/ Jump \/ ToMenu
Spec == Init /\ [][Next]_vars

\* ---- the callbacks called directly, in any phase ----
JumpAnywhere == gameState # "playing" /\ CallJump
ToMenuAnywhere == gameState # "gameOver" /\ CallToMenu
NextApi == Next \/ JumpAnywhere \/ ToMenuAnywhere
SpecApi == Init /\ [][NextApi]_vars

\* ======================= the claims =======================

\* the session as the queued updates will render it
Phase == NextRender.gameState
Points == NextRender.score

\* the three collision conditions, on the state a tick leaves behind
HitsCeiling == player.y < 0
HitsSoup == player.y + player.height > SoupTable[frameCount]
HitsFork ==
  \E i \in 1..Len(pipes) :
    /\ player.x < pipes[i].x + pipes[i].width
    /\ pipes[i].x < player.x + player.width
    /\ player.y < pipes[i].y + pipes[i].height
    /\ pipes[i].y < player.y + player.height

\* C1: a tick run while the phase is playing ends the session (gameOver is set, no
\* further frame is requested) if and only if, after the tick's updates, the player
\* is above the ceiling, or below the soup surface at its centre, or overlaps a fork.
C1_TickEndsIffCollision ==
  [][ (lastEvent' = "tick" /\ gameState = "playing")
        => /\ (Phase' = "gameOver") <=> (HitsCeiling' \/ HitsSoup' \/ HitsFork')
           /\ (Phase' = "gameOver") <=> (rafQueue' = {}) ]_vars

C1_Witness ==
  /\ lastEvent = "tick" /\ gameState = "playing" /\ Phase = "gameOver"
  /\ HitsFork /\ ~HitsCeiling /\ ~HitsSoup

\* C2: after the integration step of every tick the player's velocity is at most
\* MAX_FALL_SPEED (12), however long the player has been falling.
C2_VelocityCapped == player.velocity <= 120

\* the cap has acted: without it the 25th tick of a free fall would give 12.5
C2_Witness == lastEvent = "tick" /\ frameCount >= 25 /\ player.velocity = 120

\* top forks whose right edge is left of the player's x after one more translation
\* and was not before it
CrossingNow ==
  {i \in 1..Len(pipes) : /\ pipes[i].y = 0
                         /\ pipes[i].x + pipes[i].width >= player.x
                         /\ pipes[i].x - 39 + pipes[i].width < player.x}

\* C3: the score goes up by exactly 1 in the tick in which a top fork's right edge
\* first falls strictly left of player.x, and in no other tick; a fork is flagged
\* passed exactly when it is a top fork left of the player, so no pair counts twice
\* and a bottom fork never counts.
C3_ScoreOncePerPair ==
  /\ [][ lastEvent' = "tick" => Points' = Points + Cardinality(CrossingNow) ]_vars
  /\ [][ lastEvent' \in {"jump", "render", "toMenu"} => Points' = Points ]_vars
  /\ [](\A i \in 1..Len(pipes) :
          pipes[i].passed <=> (pipes[i].y = 0 /\ pipes[i].x + pipes[i].width < player.x))

C3_Witness ==
  /\ lastEvent = "tick" /\ Points = score + 1
  /\ \E i \in 1..Len(pipes) : pipes[i].passed /\ pipes[i].x + pipes[i].width + 39 >= player.x

\* C4: when a session ends by collision (playing -> gameOver), highScore becomes
\* the maximum of the previous highScore and the session's final score.
C4_HighScoreIsMax ==
  [][ (gameState = "playing" /\ gameState' = "gameOver")
        => highScore' = (IF highScore >= score' THEN highScore ELSE score') ]_vars

\* C5: start, from the menu or from game over and whatever the previous session
\* left behind, leaves the player at (150, 300) with velocity 0, no forks, no
\* bubbles, frameCount 0, score 0 and the phase playing, with the first tick of the
\* new session requested and not yet run.
C5_StartResets ==
  [][ lastEvent' = "start"
        => /\ player' = [x |-> 1500, y |-> 3000, width |-> 400, height |-> 400,
                         velocity |-> 0]
           /\ pipes' = << >> /\ bubbles' = << >> /\ frameCount' = 0
           /\ score' = 0 /\ Points' = 0
           /\ gameState' = "playing" /\ Phase' = "playing"
           /\ rafQueue' = {[id |-> gameLoopRef', score |-> 0]} ]_vars

\* a second session started after one that scored and left its forks behind
C5_Witness ==
  /\ lastEvent = "start" /\ sessions = 2 /\ highScore = 1
  /\ gameState = "playing" /\ frameCount = 0

\* C6: a jump received while the phase is menu or gameOver changes nothing.
C6_JumpOutsidePlayingIsNoOp ==
  [][ (lastEvent' = "jump" /\ gameState # "playing")
        => UNCHANGED << player, pipes, bubbles, frameCount, score, highScore,
                        gameState, pending, rafQueue >> ]_vars

C6_Witness ==
  /\ lastEvent = "jump" /\ gameState = "gameOver" /\ frameCount > 0
  /\ player.velocity # -100

\* C7: a jump received while the phase is playing sets the velocity to exactly
\* JUMP_FORCE (-10), whatever it was, and changes nothing else.
C7_JumpSetsVelocity ==
  [][ (lastEvent' = "jump" /\ gameState = "playing")
        => /\ player'.velocity = -100
           /\ player'.x = player.x /\ player'.y = player.y
           /\ player'.width = player.width /\ player'.height = player.height
           /\ UNCHANGED << pipes, bubbles, frameCount, score, highScore, gameState,
                           pending, rafQueue >> ]_vars

\* a jump taken in mid-flight, forks on screen
C7_Witness ==
  /\ lastEvent = "jump" /\ gameState = "playing" /\ frameCount >= 140
  /\ player.velocity = -100 /\ pipes # << >>

\* C8: toMenu called while the phase is playing leaves the phase playing.
C8_ToMenuWhilePlayingIsNoOp ==
  [][ (lastEvent' = "toMenu" /\ gameState = "playing") => gameState' = "playing" ]_vars

\* C9: once the phase has left playing no frame callback stays requested and no
\* tick runs until the next start: player, forks, bubbles, frameCount and score stay
\* as they are while the phase is menu or gameOver.
C9_NoTickOutsidePlaying ==
  /\ [](gameState # "playing" => rafQueue = {})
  /\ [][ gameState # "playing" => lastEvent' # "tick" ]_vars
  /\ [][ (gameState # "playing" /\ lastEvent' # "start")
          => UNCHANGED << player, pipes, bubbles, frameCount, score >> ]_vars

C9_Witness ==
  /\ gameState = "gameOver" /\ lastEvent = "render" /\ frameCount > 0
  /\ rafQueue = {}

\* C10: at most one frame callback is requested at any time, it is the one
\* gameLoopRef names, and while the session runs there is exactly one: the effect's
\* restart (score changed, or start) cancels the old request before making the new.
C10_OneLoop ==
  /\ Cardinality(rafQueue) <= 1
  /\ \A cb \in rafQueue : cb.id = gameLoopRef
  /\ (gameState = "playing" /\ Phase = "playing") => Cardinality(rafQueue) = 1

\* the loop restarted by the render of a new score, mid-session
C10_Witness ==
  /\ lastEvent = "render" /\ gameState = "playing" /\ score = 1 /\ frameCount > 0
  /\ \E cb \in rafQueue : cb.score = 1

\* C11: a session in which no jump is taken ends within 50 ticks: while it runs a
\* frame is always requested, it never reaches a 51st tick, and once it is over the
\* player's bottom edge is below the soup surface at its centre (the ceiling and the
\* forks were not hit) and the score is 0.
C11_FreeFallEndsInSoup ==
  (sessions > 0 /\ ~jumpLog.any) =>
    /\ frameCount <= 50
    /\ Phase = "playing" => rafQueue # {}
    /\ Phase # "playing" => /\ HitsSoup /\ ~HitsCeiling /\ ~HitsFork
                            /\ Points = 0 /\ score = 0

\* the free fall has ended the session (at the 27th tick)
C11_Witness ==
  /\ sessions > 0 /\ ~jumpLog.any /\ gameState = "gameOver" /\ frameCount = 27
  /\ HitsSoup

\* the session so far has taken a jump at every frameCount that is a positive
\* multiple of JumpEvery (and none between two of them)
JumpsEveryPeriod == sessions > 0 /\ ~jumpLog.skipped

\* C12 as stated: with a jump every 20 ticks, for 300 ticks, there is no ceiling
\* collision and the score is the number of pairs passed.
C12_PeriodicJumpsKeepBelowCeiling ==
  (JumpsEveryPeriod /\ frameCount <= 300) =>
    /\ ~HitsCeiling
    /\ Points = Cardinality({i \in 1..Len(pipes) : pipes[i].passed})

\* C12 (amended): with a jump every JumpEvery ticks each period lifts the player
\* (by 95 units for 20 ticks), so the session ends with a ceiling collision within
\* six periods, long before the 300th tick and before any pair is passed: until
\* then a frame stays requested, player.y stays between -10 and the soup surface and
\* no fork is hit; at the end player.y < 0 and the score is 0.
C12_PeriodicJumpsEndAtCeiling ==
  JumpsEveryPeriod =>
    /\ frameCount <= 6 * JumpEvery
    /\ player.y >= JUMP_FORCE
    /\ frameCount > 0 => ~HitsSoup /\ ~HitsFork
    /\ Points = 0 /\ score = 0
    /\ Phase = "playing" => rafQueue # {} /\ ~HitsCeiling
    /\ Phase # "playing" => HitsCeiling

\* the climb has ended the session at the ceiling, after the third jump
C12_Witness ==
  /\ JumpsEveryPeriod /\ gameState = "gameOver" /\ HitsCeiling
  /\ frameCount > 3 * JumpEvery

\* fork g of the list after a tick is fork f of the list before it, translated
IsTranslated(f, g) ==
  /\ g.x = f.x - GAME_SPEED /\ g.y = f.y
  /\ g.width = f.width /\ g.height = f.height
StaysAfterTick(f) == \E j \in 1..Len(pipes') : IsTranslated(f, pipes'[j])

\* C13: in every tick a fork of the list is removed if and only if its right edge,
\* after the tick's translation, is at or left of 0: a fork with x + width > 0 stays,
\* one with x + width <= 0 does not, so no listed fork ever has x + width <= 0.
C13_RemovedIffOffScreen ==
  /\ [][ lastEvent' = "tick"
         => \A i \in 1..Len(pipes) :
              StaysAfterTick(pipes[i])
                <=> (pipes[i].x - GAME_SPEED + pipes[i].width > 0) ]_vars
  /\ [](\A i \in 1..Len(pipes) : pipes[i].x + pipes[i].width > 0)

\* the tick (the 226th translation of the first pair) that removed the first pair:
\* the second pair, 86 translations old, is all that is left
C13_Witness ==
  /\ lastEvent = "tick" /\ frameCount = 365 /\ Len(pipes) = 2
  /\ pipes[1].x = GAME_WIDTH - 86 * GAME_SPEED

\* the forks the last tick's filter dropped
ForksRemoved == SelectSeq(lastTick.forksMoved, LAMBDA f : f.x + f.width <= 0)

\* C14 as stated: the collision check of a tick comes before its filter, so it runs
\* over every fork the tick has translated (none is removed unchecked), and the
\* forks it runs over are forks of the list.
C14_CollisionCheckBeforeFilter ==
  /\ lastTick.forksChecked = lastTick.forksMoved
  /\ \A i \in 1..Len(lastTick.forksChecked) :
       \E j \in 1..Len(pipes) : pipes[j] = lastTick.forksChecked[i]

\* C14 (amended): the filter comes first and the collision check runs over the
\* forks it has kept, which are the list; a fork it has dropped lies wholly left of
\* the screen and of the player, so the verdict is the one the unfiltered list
\* would give, and a dropped top fork was flagged passed in an earlier tick:
\* nothing is scored or collided against in or after the tick that removes it.
C14_FilterBeforeCollisionCheck ==
  /\ [](/\ lastTick.forksChecked
             = SelectSeq(lastTick.forksMoved, LAMBDA f : f.x + f.width > 0)
        /\ lastTick.forksChecked = pipes
        /\ \A i \in 1..Len(ForksRemoved) :
             ForksRemoved[i].x + ForksRemoved[i].width < player.x
        /\ ForkHit(player, lastTick.forksMoved) <=> ForkHit(player, lastTick.forksChecked))
  /\ [][ lastEvent' = "tick"
         => \A i \in 1..Len(pipes) :
              (~StaysAfterTick(pipes[i]) /\ pipes[i].y = 0) => pipes[i].passed ]_vars

\* the tick whose filter dropped the first pair before its collision loop ran
C14_Witness ==
  /\ lastEvent = "tick" /\ Len(lastTick.forksMoved) = 4
  /\ Len(lastTick.forksChecked) = 2 /\ Len(ForksRemoved) = 2

\* C15: the list is made of pairs, a top fork followed by its bottom fork at the
\* same x: the top fork has y = 0 and a height the random source can give, the
\* bottom fork starts PIPE_GAP below the top fork's end, and the two heights and
\* the gap add up to GAME_HEIGHT, in every reachable state.
C15_PairGeometry ==
  /\ Len(pipes) % 2 = 0
  /\ \A k \in 1..(Len(pipes) \div 2) :
       LET top == pipes[2 * k - 1]
           bottom == pipes[2 * k]
       IN /\ top.y = 0 /\ top.height \in PipeHeights
          /\ bottom.y = top.height + PIPE_GAP
          /\ top.height + PIPE_GAP + bottom.height = GAME_HEIGHT
          /\ bottom.x = top.x /\ top.width = PIPE_WIDTH /\ bottom.width = PIPE_WIDTH

\* two pairs of different heights in the list, the older one translated 200 times
C15_Witness ==
  /\ Len(pipes) = 4 /\ pipes[1].height # pipes[3].height
  /\ pipes[1].x = GAME_WIDTH - 200 * GAME_SPEED

\* C16: the phase starts as menu and every change of it is one of menu -> playing,
\* playing -> gameOver, gameOver -> playing, gameOver -> menu, whatever sequence of
\* start, jump, toMenu and tick events the interface receives.
C16_PhaseChanges ==
  /\ gameState = "menu"
  /\ [][ gameState' # gameState
         => << gameState, gameState' >> \in
              { << "menu", "playing" >>, << "playing", "gameOver" >>,
                << "gameOver", "playing" >>, << "gameOver", "menu" >> } ]_vars

\* C17: a tick adds a bubble to the list exactly when its frameCount (after the
\* increment) is a multiple of 12 and the list holds fewer than 40, and then
\* exactly one; the list never holds more than 40.
C17_BubbleSpawn ==
  /\ [][ lastEvent' = "tick"
         => /\ lastTick'.bubbleMade
                 <=> (frameCount' % 12 = 0 /\ Len(bubbles) < 40)
            /\ Len(lastTick'.bubblesMoved)
                 = Len(bubbles) + (IF lastTick'.bubbleMade THEN 1 ELSE 0)
            /\ \A i \in 1..Len(bubbles) :
                 lastTick'.bubblesMoved[i].r = bubbles[i].r ]_vars
  /\ [](Len(bubbles) <= 40 /\ Len(lastTick.bubblesMoved) <= 40)

\* the tick of frame 24 found the list below 40 and made one bubble, of radius 6.9
C17_Witness ==
  /\ lastEvent = "tick" /\ frameCount = 24
  /\ lastTick.bubbleMade /\ Len(lastTick.bubblesMoved) = 1
  /\ lastTick.bubblesMoved[1].r = 69

XOfPair(k) == GAME_WIDTH - (frameCount - SPAWN_INTERVAL * k + 1) * GAME_SPEED
PairsOnScreen ==
  {k \in 1..(frameCount \div SPAWN_INTERVAL) : XOfPair(k) + PIPE_WIDTH > 0}

\* C20: one pair is made in every tick whose frameCount is a multiple of 140 and
\* none in another, at x = 800 and not passed, and every fork moves left by
\* GAME_SPEED in every tick from the tick that made it on: the list holds, for each
\* multiple of 140 up to frameCount whose pair is still on screen, two forks, at
\* 800 - 3.9 * (number of ticks since, that tick included), and nothing else; a
\* pair made in the tick just run is not passed.
C20_SpawnEvery140AndTranslate ==
  /\ Len(pipes) = 2 * Cardinality(PairsOnScreen)
  /\ \A k \in PairsOnScreen :
       Cardinality({i \in 1..Len(pipes) : pipes[i].x = XOfPair(k)}) = 2
  /\ \A i \in 1..Len(pipes) :
       pipes[i].x = GAME_WIDTH - GAME_SPEED => ~pipes[i].passed

\* the tick of frame 420 made the third pair; the first is gone, the second has
\* been translated 141 times
C20_Witness ==
  /\ lastEvent = "tick" /\ frameCount = 420 /\ Len(pipes) = 4
  /\ pipes[3].x = GAME_WIDTH - GAME_SPEED /\ ~pipes[3].passed
  /\ pipes[1].x = GAME_WIDTH - 141 * GAME_SPEED

\* C21: no tick both raises the score and ends the session: in a tick that calls
\* setScore the player is, after the tick's updates, below the ceiling, above the
\* soup surface at its centre and clear of every fork, the phase stays playing and
\* the next frame is requested; so a tick that calls endGame has queued no score
\* update of its own for the captured score to miss.
C21_NoScoreInEndingTick ==
  [][ lastEvent' = "tick"
       => /\ Points' # Points
               => /\ ~HitsCeiling' /\ ~HitsSoup' /\ ~HitsFork'
                  /\ Phase' = "playing" /\ rafQueue' # {}
          /\ Phase' = "gameOver"
               => /\ Points' = Points
                  /\ Len(pending') = Len(pending) + 2
                  /\ \A i \in (Len(pending) + 1)..Len(pending') :
                       pending'[i].hook # "score" ]_vars

\* the tick of frame 327 has passed the first pair: its score update is the last
\* one queued, and the session goes on
C21_Witness ==
  /\ lastEvent = "tick" /\ frameCount = 327 /\ pending # << >>
  /\ pending[Len(pending)].hook = "score"
  /\ Phase = "playing" /\ rafQueue # {} /\ pipes[1].passed

\* C22: the list never holds more than 2 pairs (4 forks): a pair made at x = 800 is
\* dropped by its 226th translation (800 + 80 - 226 * 3.9 <= 0), before the second
\* pair after it is made 280 ticks later; the two forks of a pair sit side by side
\* in the list at the same x, and a tick keeps both or drops both, and adds two
\* forks or none.
C22_AtMostTwoPairs ==
  /\ [](/\ Len(pipes) <= 4 /\ Len(pipes) % 2 = 0
        /\ \A k \in 1..(Len(pipes) \div 2) :
             /\ pipes[2 * k - 1].x = pipes[2 * k].x
             /\ pipes[2 * k - 1].y = 0 /\ pipes[2 * k].y > 0)
  /\ [][ lastEvent' = "tick"
         => /\ \A k \in 1..(Len(pipes) \div 2) :
                 StaysAfterTick(pipes[2 * k - 1]) <=> StaysAfterTick(pipes[2 * k])
            /\ Len(pipes') - Len(pipes) \in {-2, 0, 2}
            /\ (frameCount' % SPAWN_INTERVAL = 0 /\ Len(pipes') = 4)
                 => Len(pipes) = 2 ]_vars

\* one tick after the third pair was made: it and the second pair are the list,
\* the first pair having gone 55 ticks before
C22_Witness ==
  /\ lastEvent = "tick" /\ frameCount = 3 * SPAWN_INTERVAL + 1 /\ Len(pipes) = 4
  /\ pipes[1].x = GAME_WIDTH - 142 * GAME_SPEED
  /\ pipes[4].x = GAME_WIDTH - 2 * GAME_SPEED

====
